---- MODULE Spec2Model ----
(***************************************************************************)
(* Model of the sha1hulud-scanner detection engine (src/src/reporter.js):  *)
(* the semver helpers parseVersion / versionMatches and the MalwareScanner *)
(* class (scan, walkDirectory, scanFile, scanJsonFile, scanLockFile,       *)
(* checkVersionAgainstMalicious, printProjectResults).                     *)
(*                                                                         *)
(* Strings are sequences of one-character strings, so that trimming,       *)
(* prefix stripping and the regular-expression match of parseVersion are   *)
(* computed character by character as the JavaScript does.                 *)
(***************************************************************************)
EXTENDS Integers, Sequences, FiniteSets, TLC

VARIABLES
    \* ---- versionMatches harness -------------------------------------
    rangeSpec,        \* argument rangeSpec of versionMatches
    targetVersion,    \* argument targetVersion of versionMatches
    vmPc,             \* "ready" before the call, "done" after
    vmResult,         \* the boolean versionMatches returned
    \* ---- environment of a MalwareScanner ---------------------------
    fs,               \* the file system: directory path -> entries
    rootPath,         \* config.scanPath
    excludeDirs,      \* config.excludeDirs
    streamOutput,     \* config.streamOutput
    maliciousPackages,\* this.maliciousPackages (MALICIOUS_DATA.packageNames)
    maliciousVersions,\* this.maliciousVersions (MALICIOUS_DATA.packageVersions)
    dataSource,       \* the module at config.dataPath: what require() finds there
    \* ---- fields of the MalwareScanner instance -----------------------
    findings,         \* this.findings
    scannedFiles,     \* this.scannedFiles
    scannedDirs,      \* this.scannedDirs
    currentProjectFindings, \* this.currentProjectFindings
    currentProjectPath,     \* this.currentProjectPath
    \* ---- control ---------------------------------------------------
    pc,               \* "idle" | "walking" | "error"
    stack,            \* call stack of walkDirectory: frames [dir, entries, idx]
    results,          \* what each completed scan() call returned
    thrown,           \* number of scan() calls that threw
    visited,          \* directories walkDirectory was called on (this scan)
    opened,           \* files scanFile was called on (this scan)
    printed,          \* per-project reports written by printProjectResults
    dispatched,       \* the parser each scanFile call handed its file to
    \* ---- the command line (main, parseArgs) ---------------------------
    constructed,      \* new MalwareScanner(config) has returned an instance
    args,             \* process.argv.slice(2)
    cliPc,            \* "off" | "start" | "parsed" | "scanning" | "caught" | "exited"
    exitCode,         \* the code given to process.exit, -1 before the exit
    outputFormat      \* config.outputFormat

vmVars == <<rangeSpec, targetVersion, vmPc, vmResult>>
envVars == <<fs, rootPath, excludeDirs, streamOutput, maliciousPackages, maliciousVersions,
             dataSource>>
scannerVars == <<findings, scannedFiles, scannedDirs, currentProjectFindings, currentProjectPath>>
ctlVars == <<pc, stack, results, thrown, visited, opened, printed, dispatched>>
cliVars == <<constructed, args, cliPc, exitCode, outputFormat>>
vars == <<vmVars, envVars, scannerVars, ctlVars, cliVars>>

\* JavaScript null (a failed match); a record, so that it compares with a match
NULL == [isNull |-> TRUE]

(***************************************************************************)
(* Bounds                                                                  *)
(***************************************************************************)
\* version components range over 0..MaxNum and one two-digit number
MaxNum == 2

(***************************************************************************)
(* Strings                                                                 *)
(***************************************************************************)
Digits == <<"0", "1", "2", "3", "4", "5", "6", "7", "8", "9">>

IsDigit(ch) == \E d \in 1..10 : Digits[d] = ch

DigitValue(ch) == (CHOOSE d \in 1..10 : Digits[d] = ch) - 1

IsSpace(ch) == ch \in {" ", "\t", "\n"}

\* decimal notation of a natural number (what a version author writes)
RECURSIVE NumToStr(_)
NumToStr(n) == IF n < 10 THEN <<Digits[n + 1]>>
               ELSE NumToStr(n \div 10) \o <<Digits[(n % 10) + 1]>>

\* the text "X.Y.Z"
Triple(X, Y, Z) == NumToStr(X) \o <<".">> \o NumToStr(Y) \o <<".">> \o NumToStr(Z)

\* String.prototype.trim
RECURSIVE TrimLeft(_)
TrimLeft(s) == IF Len(s) > 0 /\ IsSpace(Head(s)) THEN TrimLeft(Tail(s)) ELSE s

RECURSIVE TrimRight(_)
TrimRight(s) == IF Len(s) > 0 /\ IsSpace(s[Len(s)])
                THEN TrimRight(SubSeq(s, 1, Len(s) - 1)) ELSE s

Trim(s) == TrimRight(TrimLeft(s))

\* String.prototype.startsWith for a one-character prefix
StartsWith(s, ch) == Len(s) > 0 /\ s[1] = ch

\* rangeSpec.replace(/^[\^~]/, '')
StripPrefix(s) == IF StartsWith(s, "^") \/ StartsWith(s, "~") THEN Tail(s) ELSE s

\* parseInt(digits, 10) of a non-empty run of digits
RECURSIVE ParseInt(_)
ParseInt(s) == IF Len(s) = 0 THEN 0
               ELSE 10 * ParseInt(SubSeq(s, 1, Len(s) - 1)) + DigitValue(s[Len(s)])

(***************************************************************************)
(* parseVersion: versionString.match(/(\d+)\.(\d+)\.(\d+)/)                *)
(***************************************************************************)
\* index just past the longest run of digits that starts at i (\d+ is greedy)
RECURSIVE DigitRunEnd(_, _)
DigitRunEnd(s, i) == IF i <= Len(s) /\ IsDigit(s[i]) THEN DigitRunEnd(s, i + 1) ELSE i

IsDotAt(s, i) == i <= Len(s) /\ s[i] = "."

\* the match of the pattern anchored at position i, or NULL
MatchAt(s, i) ==
    LET e1 == DigitRunEnd(s, i)
        e2 == DigitRunEnd(s, e1 + 1)
        e3 == DigitRunEnd(s, e2 + 1)
    IN  IF e1 > i /\ IsDotAt(s, e1) /\ e2 > e1 + 1 /\ IsDotAt(s, e2) /\ e3 > e2 + 1
        THEN [major |-> ParseInt(SubSeq(s, i, e1 - 1)),
              minor |-> ParseInt(SubSeq(s, e1 + 1, e2 - 1)),
              patch |-> ParseInt(SubSeq(s, e2 + 1, e3 - 1))]
        ELSE NULL

\* a parse that falls back to 0.0.0 instead of null
parseVersionDefaultZero(versionString) ==
    LET starts == {i \in 1..Len(versionString) : MatchAt(versionString, i) # NULL}
    IN  IF starts = {} THEN [major |-> 0, minor |-> 0, patch |-> 0]
        ELSE MatchAt(versionString, CHOOSE i \in starts : \A j \in starts : i <= j)

\* the leftmost match anywhere in the string
parseVersion(versionString) ==
    LET starts == {i \in 1..Len(versionString) : MatchAt(versionString, i) # NULL}
    IN  IF starts = {} THEN NULL
        ELSE MatchAt(versionString, CHOOSE i \in starts : \A j \in starts : i <= j)

(***************************************************************************)
(* versionMatches                                                          *)
(***************************************************************************)
\* a caret rule that forgets the patch when the minor is equal
caretMatchesNoPatch(range, target) ==
    IF range.major = 0
    THEN IF range.minor = 0
         THEN target.major = 0 /\ target.minor = 0 /\ target.patch = range.patch
         ELSE target.major = 0 /\ target.minor = range.minor /\ target.patch >= range.patch
    ELSE target.major = range.major /\ target.minor >= range.minor

\* a caret rule without the special cases of major 0
caretMatchesNoZeroRule(range, target) ==
    /\ target.major = range.major
    /\ (target.minor > range.minor
        \/ (target.minor = range.minor /\ target.patch >= range.patch))

caretMatches(range, target) ==
    IF range.major = 0
    THEN IF range.minor = 0
         THEN target.major = 0 /\ target.minor = 0 /\ target.patch = range.patch
         ELSE target.major = 0 /\ target.minor = range.minor /\ target.patch >= range.patch
    ELSE target.major = range.major
         /\ (target.minor > range.minor
             \/ (target.minor = range.minor /\ target.patch >= range.patch))

\* a tilde rule that lets the minor grow
tildeMatchesMinorUp(range, target) ==
    /\ target.major = range.major
    /\ (target.minor > range.minor
        \/ (target.minor = range.minor /\ target.patch >= range.patch))

tildeMatches(range, target) ==
    /\ target.major = range.major
    /\ target.minor = range.minor
    /\ target.patch >= range.patch

exactMatches(range, target) ==
    /\ target.major = range.major
    /\ target.minor = range.minor
    /\ target.patch = range.patch

versionMatches(rangeSpec0, targetVersion0) ==
    LET r == Trim(rangeSpec0)
        t == Trim(targetVersion0)
        range == parseVersion(StripPrefix(r))
        target == parseVersion(t)
    IN  IF r = t THEN TRUE
        ELSE IF range = NULL \/ target = NULL THEN FALSE
        ELSE IF StartsWith(r, "^") THEN caretMatches(range, target)
        ELSE IF StartsWith(r, "~") THEN tildeMatches(range, target)
        ELSE exactMatches(range, target)

(***************************************************************************)
(* The malicious-package database (MALICIOUS_DATA)                         *)
(***************************************************************************)
\* text of a version as a string of characters
V(a, b, c) == Triple(a, b, c)

S_beta == <<"-", "b", "e", "t", "a">>
S_latest == <<"l", "a", "t", "e", "s", "t">>
S_unknown == <<"u", "n", "k", "n", "o", "w", "n">>

\* a JSON value that is not a string (an object, as in package-lock.json)
ObjectValue == <<"[object Object]">>

IsString(v) == v # ObjectValue

\* this.maliciousPackages.includes(x), array.includes(x)
Includes(seq, x) == \E i \in 1..Len(seq) : seq[i] = x

\* MALICIOUS_DATA.packageNames is not undefined
NamesDefined == dataSource.packageNames

\* MALICIOUS_DATA.packageVersions is not undefined
VersionsDefined == dataSource.packageVersions

\* !this.maliciousVersions[pkgName] is false: the key is present (an empty
\* array is truthy)
HasVersions(pkgName) == pkgName \in DOMAIN maliciousVersions

\* the finding record pushed by scanJsonFile and scanLockFile (the message,
\* a text derived from the same fields, is left out)
Finding(filePath, pkgName, version, type, severity, versionCheck) ==
    [file |-> filePath,
     package |-> pkgName,
     version |-> version,
     type |-> type,
     severity |-> severity,
     matchedMaliciousVersions |-> versionCheck.matchedVersions,
     allKnownMaliciousVersions |-> versionCheck.allMaliciousVersions]

(***************************************************************************)
(* checkVersionAgainstMalicious                                            *)
(***************************************************************************)
\* matchedVersions.push(maliciousVersion) for each one versionMatches accepts
RECURSIVE MatchedVersions(_, _)
MatchedVersions(versionSpec, list) ==
    IF list = <<>> THEN <<>>
    ELSE (IF versionMatches(versionSpec, Head(list)) THEN <<Head(list)>> ELSE <<>>)
         \o MatchedVersions(versionSpec, Tail(list))

\* threw: this.maliciousVersions is undefined (reading a property of it is a
\* TypeError), or versionSpec.trim is not a function (the spec is not a
\* string and the loop over the malicious versions runs at least once)
checkVersionAgainstMalicious(pkgName, versionSpec) ==
    IF ~VersionsDefined
    THEN [threw |-> TRUE, matches |-> FALSE, matchedVersions |-> <<>>,
          allMaliciousVersions |-> <<>>]
    ELSE IF ~HasVersions(pkgName)
    THEN [threw |-> FALSE, matches |-> FALSE, matchedVersions |-> <<>>,
          allMaliciousVersions |-> <<>>]
    ELSE LET list == maliciousVersions[pkgName]
         IN  IF ~IsString(versionSpec) /\ list # <<>>
             THEN [threw |-> TRUE, matches |-> FALSE, matchedVersions |-> <<>>,
                   allMaliciousVersions |-> list]
             ELSE LET matched == MatchedVersions(versionSpec, list)
                  IN  [threw |-> FALSE, matches |-> Len(matched) > 0,
                       matchedVersions |-> matched, allMaliciousVersions |-> list]

(***************************************************************************)
(* scanJsonFile                                                            *)
(***************************************************************************)
\* index of key k in a list of <<key, value>> pairs, 0 when absent
KeyIndex(pairs, k) ==
    IF \E i \in 1..Len(pairs) : pairs[i][1] = k
    THEN CHOOSE i \in 1..Len(pairs) : pairs[i][1] = k
    ELSE 0

\* object spread {...acc, ...more}: a key already present keeps its place and
\* takes the later value, a new key is appended
RECURSIVE Spread(_, _)
Spread(acc, more) ==
    IF more = <<>> THEN acc
    ELSE LET k == Head(more)[1]
             i == KeyIndex(acc, k)
         IN  Spread(IF i = 0 THEN Append(acc, Head(more))
                    ELSE [acc EXCEPT ![i] = Head(more)],
                    Tail(more))

\* a merge in which the earlier category wins
RECURSIVE SpreadKeepFirst(_, _)
SpreadKeepFirst(acc, more) ==
    IF more = <<>> THEN acc
    ELSE SpreadKeepFirst(IF KeyIndex(acc, Head(more)[1]) = 0
                         THEN Append(acc, Head(more)) ELSE acc,
                         Tail(more))

\* allDeps = {...dependencies, ...devDependencies, ...optionalDependencies,
\*            ...peerDependencies}
AllDeps(json) ==
    Spread(Spread(Spread(Spread(<<>>, json.dependencies), json.devDependencies),
                  json.optionalDependencies),
           json.peerDependencies)

\* a derivation that forgets the WARNING branch
manifestSeverityNoWarning(versionCheck) ==
    IF versionCheck.matches THEN "CRITICAL" ELSE "INFO"

\* severity of a manifest finding
manifestSeverity(versionCheck) ==
    IF versionCheck.matches THEN "CRITICAL"
    ELSE IF Len(versionCheck.allMaliciousVersions) > 0 THEN "WARNING"
    ELSE "INFO"

\* the for loop over Object.keys(allDeps); a throw inside it (also the
\* TypeError of this.maliciousPackages.includes on undefined) leaves the loop
\* (the catch of scanJsonFile) with the findings pushed so far
RECURSIVE ScanDeps(_, _, _)
ScanDeps(filePath, deps, acc) ==
    IF deps = <<>> \/ ~NamesDefined THEN acc
    ELSE LET pkgName == Head(deps)[1]
             versionSpec == Head(deps)[2]
         IN  IF ~Includes(maliciousPackages, pkgName)
             THEN ScanDeps(filePath, Tail(deps), acc)
             ELSE LET versionCheck == checkVersionAgainstMalicious(pkgName, versionSpec)
                  IN  IF versionCheck.threw THEN acc
                      ELSE ScanDeps(filePath, Tail(deps),
                                    Append(acc, Finding(filePath, pkgName, versionSpec,
                                                        "package.json",
                                                        manifestSeverity(versionCheck),
                                                        versionCheck)))

\* a parser that accepts a manifest with a syntax error
parseTolerant(filePath, content) == ScanDeps(filePath, AllDeps(content), <<>>)

\* the findings scanJsonFile pushes; JSON.parse throwing is caught: none
scanJsonFile(filePath, content) ==
    IF ~content.valid THEN <<>>
    ELSE ScanDeps(filePath, AllDeps(content), <<>>)

(***************************************************************************)
(* scanLockFile                                                            *)
(*                                                                         *)
(* Lock text is a sequence of tokens, each n characters wide:              *)
(*   t = "name"  a quoted package name, "pkg" or 'pkg'                     *)
(*   t = "ver"   the text  version": "value"  (what the tail of the        *)
(*               pattern, version["']?:\s*["']([^"']+)["'], matches)       *)
(*   t = "pad"   any other text                                            *)
(***************************************************************************)
\* the {0,200} of the version pattern
WindowLen == 200

NameTok(pkg) == [t |-> "name", name |-> pkg, value |-> <<>>, n |-> 10]
VerTok(v) == [t |-> "ver", name |-> "", value |-> v, n |-> Len(v) + 12]
PadTok(k) == [t |-> "pad", name |-> "", value |-> <<>>, n |-> k]

\* offset of the first character of token i
RECURSIVE TokStart(_, _)
TokStart(tokens, i) == IF i <= 1 THEN 0 ELSE TokStart(tokens, i - 1) + tokens[i - 1].n

TokEnd(tokens, i) == TokStart(tokens, i) + tokens[i].n

\* regex.test(content): some quoted occurrence of the name
NameOccurs(tokens, pkg) ==
    \E i \in 1..Len(tokens) : tokens[i].t = "name" /\ tokens[i].name = pkg

\* the version fields the pattern can reach from the occurrence at i: at most
\* `window` characters lie between the closing quote and the word version
Reachable(tokens, i, window) ==
    {j \in (i + 1)..Len(tokens) :
        /\ tokens[j].t = "ver"
        /\ Len(tokens[j].value) > 0
        /\ TokStart(tokens, j) - TokEnd(tokens, i) <= window}

\* content.match(pattern)[1], or 'unknown': the leftmost occurrence of the
\* name that reaches a version field, and (the quantifier being greedy) the
\* farthest field it reaches
ExtractVersionIn(tokens, pkg, window) ==
    LET occ == {i \in 1..Len(tokens) :
                    /\ tokens[i].t = "name"
                    /\ tokens[i].name = pkg
                    /\ Reachable(tokens, i, window) # {}}
    IN  IF occ = {} THEN S_unknown
        ELSE LET i == CHOOSE x \in occ : \A y \in occ : x <= y
                 r == Reachable(tokens, i, window)
                 j == CHOOSE x \in r : \A y \in r : x >= y
             IN  tokens[j].value

ExtractVersion(tokens, pkg) == ExtractVersionIn(tokens, pkg, WindowLen)

\* severity of a lock-file finding
lockSeverity(versionCheck) == IF versionCheck.matches THEN "CRITICAL" ELSE "WARNING"

\* the loop over this.maliciousPackages; a throw of
\* checkVersionAgainstMalicious leaves it (the catch of scanFile)
RECURSIVE ScanLockPkgs(_, _, _, _)
ScanLockPkgs(filePath, tokens, pkgs, acc) ==
    IF pkgs = <<>> THEN acc
    ELSE LET maliciousPkg == Head(pkgs)
             version == ExtractVersion(tokens, maliciousPkg)
         IN  IF NameOccurs(tokens, maliciousPkg) /\ version # S_unknown
             THEN LET versionCheck == checkVersionAgainstMalicious(maliciousPkg, version)
                  IN  IF versionCheck.threw THEN acc
                      ELSE ScanLockPkgs(filePath, tokens, Tail(pkgs),
                                        Append(acc, Finding(filePath, maliciousPkg, version,
                                                            "lock file",
                                                            lockSeverity(versionCheck),
                                                            versionCheck)))
             ELSE ScanLockPkgs(filePath, tokens, Tail(pkgs), acc)

\* the findings scanLockFile pushes (none when this.maliciousPackages is
\* undefined: it is not iterable)
scanLockFile(filePath, content) ==
    IF ~NamesDefined THEN <<>>
    ELSE ScanLockPkgs(filePath, content.tokens, maliciousPackages, <<>>)

(***************************************************************************)
(* File names and paths.  A path is the sequence of its components; a      *)
(* component is kept as one string and NameChars gives its characters.     *)
(***************************************************************************)
C_json == <<".", "j", "s", "o", "n">>
C_lock == <<".", "l", "o", "c", "k">>
C_yaml == <<".", "y", "a", "m", "l">>
C_package == <<"p", "a", "c", "k", "a", "g", "e">>
C_packageJson == C_package \o C_json

NameChars(name) ==
    CASE name = "package.json" -> C_packageJson
      [] name = "package-lock.json" -> C_package \o <<"-", "l", "o", "c", "k">> \o C_json
      [] name = "npm-shrinkwrap.json" ->
            <<"n", "p", "m", "-", "s", "h", "r", "i", "n", "k", "w", "r", "a", "p">> \o C_json
      [] name = "yarn.lock" -> <<"y", "a", "r", "n">> \o C_lock
      [] name = "pnpm-lock.yaml" -> <<"p", "n", "p", "m", "-", "l", "o", "c", "k">> \o C_yaml
      [] name = "composer.json" -> <<"c", "o", "m", "p", "o", "s", "e", "r">> \o C_json
      [] name = "Cargo.lock" -> <<"C", "a", "r", "g", "o">> \o C_lock
      [] OTHER -> <<"R", "E", "A", "D", "M", "E", ".", "m", "d">>

\* String.prototype.endsWith
EndsWith(s, suffix) ==
    Len(s) >= Len(suffix) /\ SubSeq(s, Len(s) - Len(suffix) + 1, Len(s)) = suffix

\* this.dependencyFiles
dependencyFiles ==
    <<"package.json", "package-lock.json", "yarn.lock", "pnpm-lock.yaml",
      "npm-shrinkwrap.json">>

\* path.join(dir, entry.name)
Join(dir, name) == Append(dir, name)

\* path.dirname(filePath)
Dirname(filePath) == SubSeq(filePath, 1, Len(filePath) - 1)

Basename(filePath) == filePath[Len(filePath)]

\* null of this.currentProjectPath (falsy, as the empty string is)
NoPath == <<>>

(***************************************************************************)
(* The file system: a directory node lists its entries in readdir order    *)
(***************************************************************************)
NoContent ==
    [valid |-> FALSE, dependencies |-> <<>>, devDependencies |-> <<>>,
     optionalDependencies |-> <<>>, peerDependencies |-> <<>>, tokens |-> <<>>]

\* a manifest JSON.parse accepts
Manifest(deps, dev, opt, peer) ==
    [valid |-> TRUE, dependencies |-> deps, devDependencies |-> dev,
     optionalDependencies |-> opt, peerDependencies |-> peer, tokens |-> <<>>]

\* the same text with a syntax error: JSON.parse throws
BadManifest(deps) == [Manifest(deps, <<>>, <<>>, <<>>) EXCEPT !.valid = FALSE]

Dep1(name, spec) == Manifest(<<<<name, spec>>>>, <<>>, <<>>, <<>>)

LockText(tokens) == [NoContent EXCEPT !.tokens = tokens]

File(name, content) ==
    [name |-> name, kind |-> "file", readable |-> TRUE, entries |-> <<>>,
     content |-> content]

Dir(name, entries) ==
    [name |-> name, kind |-> "dir", readable |-> TRUE, entries |-> entries,
     content |-> NoContent]

\* a symbolic link: neither isDirectory() nor isFile()
Link(name) == [File(name, NoContent) EXCEPT !.kind = "link"]

\* readFileSync / readdirSync throws on it
Unreadable(node) == [node EXCEPT !.readable = FALSE]

(***************************************************************************)
(* MalwareScanner: scanFile, printProjectResults, walkDirectory, scan      *)
(***************************************************************************)
\* number of scan() calls made on the instance
MaxScans == 2

BySeverity(list, severity) == SelectSeq(list, LAMBDA f : f.severity = severity)

\* what one call of printProjectResults writes for the current project
Report(projectPath, projectFindings) ==
    [project |-> projectPath,
     critical |-> BySeverity(projectFindings, "CRITICAL"),
     warning |-> BySeverity(projectFindings, "WARNING"),
     clean |-> Len(projectFindings) = 0]

\* a dispatch that looks for the word lock before the extension
ParserLockFirst(filePath, node) ==
    LET chars == NameChars(Basename(filePath))
        hasLock == \E i \in 1..Len(chars) :
                      i + 3 <= Len(chars) /\ SubSeq(chars, i, i + 3) = Tail(C_lock)
    IN  IF ~node.readable THEN "unread"
        ELSE IF hasLock THEN "lock"
        ELSE IF EndsWith(chars, C_json) THEN "json"
        ELSE "none"

\* the try block of scanFile: readFileSync may throw ("unread": caught, no
\* parser runs), then the dispatch on the extension of the path
Parser(filePath, node) ==
    LET chars == NameChars(Basename(filePath))
    IN  IF ~node.readable THEN "unread"
        ELSE IF EndsWith(chars, C_json) THEN "json"
        ELSE IF EndsWith(chars, C_lock) \/ EndsWith(chars, C_yaml) THEN "lock"
        ELSE "none"

\* the findings the try block of scanFile pushes for one file
FileFindings(filePath, node) ==
    LET parser == Parser(filePath, node)
    IN  IF parser = "json" THEN scanJsonFile(filePath, node.content)
        ELSE IF parser = "lock" THEN scanLockFile(filePath, node.content)
        ELSE <<>>

\* a walk that prunes nothing
IsExcludedNever(name) == FALSE

\* this.config.excludeDirs.includes(entry.name)
IsExcluded(name) == Includes(excludeDirs, name)

\* flat(): total number of listed versions
RECURSIVE FlatLen(_, _)
FlatLen(f, keys) ==
    IF keys = {} THEN 0
    ELSE LET k == CHOOSE x \in keys : TRUE
         IN  Len(f[k]) + FlatLen(f, keys \ {k})

\* the object scan() returns; findings is this.findings itself (the same
\* array), returned is its value at the time of the return
ScanResult ==
    [summary |->
        [directoriesScanned |-> scannedDirs,
         filesScanned |-> scannedFiles,
         maliciousPackagesInDb |-> Len(maliciousPackages),
         maliciousVersionsInDb |-> FlatLen(maliciousVersions, DOMAIN maliciousVersions),
         findingsCount |-> Len(findings),
         criticalCount |-> Len(BySeverity(findings, "CRITICAL")),
         warningCount |-> Len(BySeverity(findings, "WARNING")),
         infoCount |-> Len(BySeverity(findings, "INFO"))],
     returned |-> findings,
     findings |-> findings]

\* every result handed out holds a reference to this.findings
Aliased(rs, newFindings) == [i \in DOMAIN rs |-> [rs[i] EXCEPT !.findings = newFindings]]

top == stack[Len(stack)]

entry == top.node.entries[top.idx]

InLoop == pc = "walking" /\ stack # <<>> /\ top.idx \in 1..Len(top.node.entries)

Advance == [stack EXCEPT ![Len(stack)].idx = @ + 1]

\* a scan that does not look whether the root exists
existsSyncAlways == TRUE

\* the entry of the tree a path names, NULL when there is none
RECURSIVE Descend(_, _, _)
Descend(node, path, i) ==
    IF i > Len(path) THEN node
    ELSE LET hits == {k \in 1..Len(node.entries) : node.entries[k].name = path[i]}
         IN  IF hits = {} THEN NULL
             ELSE Descend(node.entries[CHOOSE k \in hits : \A j \in hits : k <= j],
                          path, i + 1)

Lookup(path) ==
    IF path = <<>> \/ path[1] # fs.root.name THEN NULL ELSE Descend(fs.root, path, 2)

\* fs.existsSync(this.config.scanPath)
existsSync == fs.exists /\ Lookup(rootPath) # NULL

\* fs.readdirSync(dir, { withFileTypes: true }) returns
ReadDirReturns(node) == fs.exists /\ node.kind = "dir" /\ node.readable

\* the summary of scan() can be built: this.maliciousPackages.length and
\* Object.values(this.maliciousVersions) throw a TypeError on undefined
SummaryBuilds == NamesDefined /\ VersionsDefined

\* scan() may be called: an instance exists; a program calls it up to
\* MaxScans times, main() once
MayCallScan ==
    /\ constructed
    /\ pc = "idle"
    /\ IF cliPc = "off" THEN Len(results) + thrown < MaxScans
       ELSE cliPc = "scanning" /\ Len(results) + thrown = 0

\* scan(): the root does not exist, throw new Error('Scan path not found')
ScanThrow ==
    /\ MayCallScan
    /\ ~existsSync
    /\ thrown' = thrown + 1
    /\ UNCHANGED <<vmVars, envVars, cliVars, scannerVars, pc, stack, results, visited, opened, printed,
                   dispatched>>

\* scan(): the root exists, call this.walkDirectory(this.config.scanPath)
ScanStart ==
    /\ MayCallScan
    /\ existsSync
    /\ pc' = "walking"
    /\ stack' = <<[dir |-> rootPath, node |-> Lookup(rootPath), idx |-> 0]>>
    /\ visited' = Append(visited, rootPath)
    /\ UNCHANGED <<vmVars, envVars, cliVars, scannerVars, results, thrown, opened, printed,
                   dispatched>>

\* walkDirectory: readdirSync throws (the directory is missing or
\* unreadable), return
WalkReadDirFails ==
    /\ pc = "walking" /\ stack # <<>> /\ top.idx = 0
    /\ ~ReadDirReturns(top.node)
    /\ stack' = SubSeq(stack, 1, Len(stack) - 1)
    /\ UNCHANGED <<vmVars, envVars, cliVars, scannerVars, pc, results, thrown, visited, opened, printed,
                   dispatched>>

\* walkDirectory: readdirSync succeeds, this.scannedDirs++
WalkReadDir ==
    /\ pc = "walking" /\ stack # <<>> /\ top.idx = 0
    /\ ReadDirReturns(top.node)
    /\ scannedDirs' = scannedDirs + 1
    /\ stack' = Advance
    /\ UNCHANGED <<vmVars, envVars, cliVars, findings, scannedFiles, currentProjectFindings,
                   currentProjectPath, pc, results, thrown, visited, opened, printed,
                   dispatched>>

\* walkDirectory: a subdirectory with an excluded name, continue
WalkSkipExcluded ==
    /\ InLoop
    /\ entry.kind = "dir" /\ IsExcluded(entry.name)
    /\ stack' = Advance
    /\ UNCHANGED <<vmVars, envVars, cliVars, scannerVars, pc, results, thrown, visited, opened, printed,
                   dispatched>>

\* walkDirectory: a subdirectory, this.walkDirectory(fullPath)
WalkRecurse ==
    /\ InLoop
    /\ entry.kind = "dir" /\ ~IsExcluded(entry.name)
    /\ LET fullPath == Join(top.dir, entry.name)
       IN  /\ stack' = Append(Advance, [dir |-> fullPath, node |-> entry, idx |-> 0])
           /\ visited' = Append(visited, fullPath)
    /\ UNCHANGED <<vmVars, envVars, cliVars, scannerVars, pc, results, thrown, opened, printed,
                   dispatched>>

\* walkDirectory: a file with a recognized name, this.scanFile(fullPath)
WalkScanFile ==
    /\ InLoop
    /\ entry.kind = "file" /\ Includes(dependencyFiles, entry.name)
    /\ LET filePath == Join(top.dir, entry.name)
           projectDir == Dirname(filePath)
           isPackageJson == EndsWith(NameChars(Basename(filePath)), C_packageJson)
           newProject == isPackageJson /\ projectDir # currentProjectPath
           printsPrevious == newProject /\ currentProjectPath # NoPath /\ streamOutput
           new == FileFindings(filePath, entry)
       IN  /\ scannedFiles' = scannedFiles + 1
           /\ opened' = Append(opened, filePath)
           /\ dispatched' = Append(dispatched, [file |-> filePath,
                                                parser |-> Parser(filePath, entry)])
           /\ printed' = IF printsPrevious
                         THEN Append(printed, Report(currentProjectPath, currentProjectFindings))
                         ELSE printed
           /\ currentProjectPath' = IF newProject THEN projectDir ELSE currentProjectPath
           /\ currentProjectFindings' =
                 (IF newProject THEN <<>> ELSE currentProjectFindings) \o new
           /\ findings' = findings \o new
           /\ results' = Aliased(results, findings \o new)
    /\ stack' = Advance
    /\ UNCHANGED <<vmVars, envVars, cliVars, scannedDirs, pc, thrown, visited>>

\* walkDirectory: any other entry is passed over
WalkIgnore ==
    /\ InLoop
    /\ ~(entry.kind = "dir")
    /\ ~(entry.kind = "file" /\ Includes(dependencyFiles, entry.name))
    /\ stack' = Advance
    /\ UNCHANGED <<vmVars, envVars, cliVars, scannerVars, pc, results, thrown, visited, opened, printed,
                   dispatched>>

\* walkDirectory: the loop over the entries is over, return
WalkReturn ==
    /\ pc = "walking" /\ stack # <<>> /\ top.idx > Len(top.node.entries)
    /\ stack' = SubSeq(stack, 1, Len(stack) - 1)
    /\ UNCHANGED <<vmVars, envVars, cliVars, scannerVars, pc, results, thrown, visited, opened, printed,
                   dispatched>>

\* scan(): the walk is over; print the last project, return the result
ScanFinish ==
    /\ pc = "walking" /\ stack = <<>>
    /\ SummaryBuilds
    /\ printed' = IF currentProjectPath # NoPath /\ streamOutput
                  THEN Append(printed, Report(currentProjectPath, currentProjectFindings))
                  ELSE printed
    /\ results' = Append(results, ScanResult)
    /\ pc' = "idle"
    /\ UNCHANGED <<vmVars, envVars, cliVars, scannerVars, stack, thrown, visited, opened,
                   dispatched>>

\* scan(): the walk is over; print the last project; building the summary
\* throws a TypeError (the database lacks a mapping)
ScanResultThrows ==
    /\ pc = "walking" /\ stack = <<>>
    /\ ~SummaryBuilds
    /\ printed' = IF currentProjectPath # NoPath /\ streamOutput
                  THEN Append(printed, Report(currentProjectPath, currentProjectFindings))
                  ELSE printed
    /\ thrown' = thrown + 1
    /\ pc' = "idle"
    /\ UNCHANGED <<vmVars, envVars, cliVars, scannerVars, stack, results, visited, opened,
                   dispatched>>

Next ==
    \/ ScanThrow
    \/ ScanStart
    \/ WalkReadDirFails
    \/ WalkReadDir
    \/ WalkSkipExcluded
    \/ WalkRecurse
    \/ WalkScanFile
    \/ WalkIgnore
    \/ WalkReturn
    \/ ScanFinish

(***************************************************************************)
(* Inputs                                                                  *)
(***************************************************************************)
Nums == (0..MaxNum) \cup {10}

Versions == {V(a, b, c) : a \in Nums, b \in Nums, c \in Nums}

\* strings without a usable triple, or with text around one
OddStrings ==
    { <<>>, S_latest, <<"*">>, <<"^">>, <<"~">>,
      <<"1", ".", "2">>, <<"1", ".", "2", ".", "x">>, <<"1", ".", ".", "2", ".", "3">>,
      <<"^">> \o S_latest, <<"~", "1", ".", "2">>,
      <<" ">> \o S_latest \o <<" ">>,
      <<" ">> \o V(1, 2, 0) \o <<" ">>,
      <<"v">> \o V(1, 2, 0),
      V(1, 2, 0) \o S_beta,
      V(1, 2, 0) \o <<".", "4">>,
      <<"1", ".", "x", ".">> \o V(1, 2, 0) }

RangeInputs ==
    {p \o v : p \in {<<>>, <<"^">>, <<"~">>}, v \in Versions} \cup OddStrings

TargetInputs == Versions \cup OddStrings

PkgEvil == "evil-pkg"
PkgFlagged == "flagged-pkg"
PkgOther == "left-pad"

DefaultExcludeDirs == <<"node_modules", ".git", ".cache", "dist", "build">>

\* MALICIOUS_DATA: the names, and the versions known for some of them
Databases ==
    { [names |-> <<PkgEvil, PkgFlagged>>,
       versions |-> (PkgEvil :> <<V(1, 2, 3), V(2, 0, 0)>>)],
      [names |-> <<PkgFlagged, PkgEvil>>,
       versions |-> (PkgEvil :> <<V(1, 2, 3)>>) @@ (PkgFlagged :> <<>>)] }

\* version specs a manifest declares
SpecTexts ==
    { <<"^">> \o V(1, 2, 0), <<"^">> \o V(2, 0, 0), <<"~">> \o V(1, 2, 0),
      <<"~">> \o V(2, 0, 0), V(1, 2, 3), V(1, 2, 4), <<"^">> \o V(0, 0, 3),
      S_latest, <<"*">>, <<" ", "^">> \o V(1, 0, 0) \o <<" ">>,
      V(1, 2, 3) \o S_beta, ObjectValue }

ManifestContents ==
    {Dep1(PkgEvil, v) : v \in SpecTexts}
    \cup {Dep1(PkgFlagged, v) : v \in {V(1, 2, 3), S_latest, ObjectValue}}
    \cup {Dep1(PkgOther, v) : v \in {V(1, 2, 3), ObjectValue}}
    \cup
    { Manifest(<<<<PkgEvil, <<"^">> \o V(1, 0, 0)>>, <<PkgOther, V(1, 0, 0)>>>>,
               <<<<PkgFlagged, V(1, 0, 0)>>>>, <<>>,
               <<<<PkgEvil, <<"^">> \o V(3, 0, 0)>>>>),
      Manifest(<<<<PkgFlagged, ObjectValue>>, <<PkgEvil, ObjectValue>>,
                 <<PkgOther, V(1, 0, 0)>>>>,
               <<>>, <<<<PkgFlagged, V(1, 2, 3)>>>>, <<>>),
      Manifest(<<>>, <<<<PkgEvil, V(2, 0, 0)>>>>, <<<<PkgEvil, V(1, 0, 0)>>>>, <<>>),
      Manifest(<<>>, <<>>, <<>>, <<>>),
      BadManifest(<<<<PkgEvil, V(1, 2, 3)>>>>) }

LockContents ==
    {LockText(<<PadTok(20), NameTok(PkgEvil), PadTok(k), VerTok(v), PadTok(5)>>) :
        k \in {10, WindowLen, WindowLen + 1},
        v \in {V(1, 2, 3), V(1, 2, 4), <<"^">> \o V(1, 0, 0), V(1, 2, 3) \o S_beta}}
    \cup
    { LockText(<<NameTok(PkgFlagged), PadTok(10), VerTok(V(1, 2, 3))>>),
      LockText(<<NameTok(PkgEvil), PadTok(10), VerTok(V(9, 9, 9)), PadTok(10),
                 VerTok(V(1, 2, 3))>>),
      LockText(<<NameTok(PkgEvil), PadTok(WindowLen + 1), NameTok(PkgEvil), PadTok(3),
                 VerTok(V(2, 0, 0))>>),
      LockText(<<NameTok(PkgEvil), PadTok(10), VerTok(S_unknown)>>),
      LockText(<<NameTok(PkgEvil), PadTok(10), VerTok(<<>>)>>),
      LockText(<<NameTok(PkgOther), PadTok(10), VerTok(V(1, 2, 3))>>),
      LockText(<<VerTok(V(1, 2, 3)), PadTok(10), NameTok(PkgEvil)>>),
      LockText(<<>>) }

\* the file under study, under each name it can carry
FocusFiles ==
    {File("package.json", c) : c \in ManifestContents}
    \cup {File(n, Dep1(PkgEvil, V(1, 2, 3))) :
            n \in {"package-lock.json", "npm-shrinkwrap.json", "composer.json"}}
    \cup {File("package-lock.json",
               Dep1(PkgOther, ObjectValue)),
          File("package-lock.json",
               Manifest(<<<<PkgOther, ObjectValue>>, <<PkgEvil, ObjectValue>>,
                          <<PkgFlagged, ObjectValue>>>>, <<>>, <<>>, <<>>))}
    \cup {File("yarn.lock", c) : c \in LockContents}
    \cup {File(n, LockText(<<NameTok(PkgEvil), PadTok(10), VerTok(V(1, 2, 3))>>)) :
            n \in {"pnpm-lock.yaml", "Cargo.lock"}}
    \cup {Unreadable(File("package.json", Dep1(PkgEvil, V(1, 2, 3)))),
          Unreadable(File("yarn.lock",
                          LockText(<<NameTok(PkgEvil), PadTok(10), VerTok(V(1, 2, 3))>>)))}

\* a manifest and a lock file that each yield a finding
GoodManifest == File("package.json", Dep1(PkgEvil, <<"^">> \o V(1, 2, 0)))
GoodLock == File("yarn.lock", LockText(<<NameTok(PkgEvil), PadTok(10), VerTok(V(2, 0, 0))>>))

\* an entry beside the focus file f: a directory lists a name once
Beside(f, node) ==
    IF node.name # f.name THEN node
    ELSE [node EXCEPT !.name = IF f.name = "yarn.lock" THEN "pnpm-lock.yaml" ELSE "yarn.lock"]

\* the entries of the root directory: the focus file f at several places
RootEntries(f) ==
    { <<f, File("README.md", NoContent), Beside(f, Link("package.json"))>>,
      <<GoodManifest, Dir("app", <<f>>), GoodLock>>,
      <<Dir("node_modules", <<f, Dir("app", <<GoodManifest>>)>>), GoodLock, GoodManifest>>,
      <<Dir("app", <<Dir("lib", <<Dir("node_modules", <<GoodManifest>>), f>>), GoodLock>>),
        GoodManifest>>,
      <<Unreadable(Dir("lib", <<GoodManifest>>)), f, Dir("app", <<GoodLock, GoodManifest>>)>>,
      <<Beside(f, GoodLock), f, Dir("dist", <<GoodManifest>>), Dir("app", <<>>)>> }

\* the name of the scan root with the exclusion list of the run
Configs ==
    { [root |-> "proj", exclude |-> DefaultExcludeDirs],
      [root |-> "proj", exclude |-> <<"app">>],
      [root |-> "node_modules", exclude |-> DefaultExcludeDirs] }

AllRootEntries == UNION {RootEntries(f) : f \in FocusFiles}

NoVM ==
    /\ rangeSpec = <<>>
    /\ targetVersion = <<>>
    /\ vmPc = "off"
    /\ vmResult = FALSE

FreshScanner ==
    /\ findings = <<>>
    /\ scannedFiles = 0
    /\ scannedDirs = 0
    /\ currentProjectFindings = <<>>
    /\ currentProjectPath = NoPath
    /\ pc = "idle"
    /\ stack = <<>>
    /\ results = <<>>
    /\ thrown = 0
    /\ visited = <<>>
    /\ opened = <<>>
    /\ printed = <<>>
    /\ dispatched = <<>>

\* a module that loads and exports packageNames and packageVersions
GoodSource == [loads |-> TRUE, packageNames |-> TRUE, packageVersions |-> TRUE]

\* no command line: the scanner is used as a library
NoCLI ==
    /\ args = <<>>
    /\ cliPc = "off"
    /\ exitCode = -1
    /\ outputFormat = "console"

\* the state after new MalwareScanner(config)
Init ==
    /\ NoVM
    /\ \E cfg \in Configs :
          /\ \/ \E es \in AllRootEntries : fs = [exists |-> TRUE, root |-> Dir(cfg.root, es)]
             \/ fs = [exists |-> FALSE, root |-> Unreadable(Dir(cfg.root, <<GoodManifest>>))]
          /\ rootPath = <<cfg.root>>
          /\ excludeDirs = cfg.exclude
    /\ streamOutput \in BOOLEAN
    /\ \E db \in Databases :
          /\ maliciousPackages = db.names
          /\ maliciousVersions = db.versions
    /\ dataSource = GoodSource
    /\ constructed = TRUE
    /\ NoCLI
    /\ FreshScanner

Spec == Init /\ [][Next]_vars

(***************************************************************************)
(* versionMatches on its own                                               *)
(***************************************************************************)
CallVersionMatches ==
    /\ vmPc = "ready"
    /\ vmResult' = versionMatches(rangeSpec, targetVersion)
    /\ vmPc' = "done"
    /\ UNCHANGED <<rangeSpec, targetVersion, envVars, scannerVars, ctlVars, cliVars>>

InitVM ==
    /\ rangeSpec \in RangeInputs
    /\ targetVersion \in TargetInputs
    /\ vmPc = "ready"
    /\ vmResult = FALSE
    /\ fs = [exists |-> FALSE, root |-> Dir("proj", <<>>)]
    /\ rootPath = <<"proj">>
    /\ excludeDirs = DefaultExcludeDirs
    /\ streamOutput = FALSE
    /\ maliciousPackages = <<>>
    /\ maliciousVersions = <<>>
    /\ dataSource = GoodSource
    /\ constructed = FALSE
    /\ NoCLI
    /\ FreshScanner

NextVM == CallVersionMatches

SpecVM == InitVM /\ [][NextVM]_vars

(***************************************************************************)
(* Properties of versionMatches (checked under SpecVM)                     *)
(***************************************************************************)
\* a text of the form digits.digits.digits
IsTripleText(u) ==
    /\ Len(u) >= 5
    /\ \A i \in 1..Len(u) : IsDigit(u[i]) \/ u[i] = "."
    /\ Cardinality({i \in 1..Len(u) : u[i] = "."}) = 2
    /\ IsDigit(u[1]) /\ IsDigit(u[Len(u)])
    /\ \A i \in 1..(Len(u) - 1) : ~(u[i] = "." /\ u[i + 1] = ".")

\* the string contains a major.minor.patch integer triple
HasTriple(s) == \E i \in 1..Len(s) : \E j \in i..Len(s) : IsTripleText(SubSeq(s, i, j))

NumTriples == Nums \X Nums \X Nums

\* the (X, Y, Z) for which the range is the text  prefix X.Y.Z
RangeTriples(prefix) == {r \in NumTriples : rangeSpec = prefix \o V(r[1], r[2], r[3])}

\* the (a, b, c) for which the candidate is the text a.b.c
TargetTriples == {t \in NumTriples : targetVersion = V(t[1], t[2], t[3])}

NoTripleSomewhere == ~HasTriple(StripPrefix(rangeSpec)) \/ ~HasTriple(targetVersion)

\* C2 as stated: whenever the range (its leading ^ or ~ stripped) or the
\* candidate contains no major.minor.patch triple, versionMatches returns false.
C2_FailClosed == (vmPc = "done" /\ NoTripleSomewhere) => vmResult = FALSE

\* C2 amended: whenever the range or the candidate contains no triple and the
\* two strings are not identical after trimming, versionMatches returns false.
C2_FailClosedUnlessIdentical ==
    (vmPc = "done" /\ NoTripleSomewhere /\ Trim(rangeSpec) # Trim(targetVersion))
        => vmResult = FALSE

C2_Witness ==
    /\ vmPc = "done"
    /\ rangeSpec = <<"^">> \o S_latest
    /\ targetVersion = V(1, 2, 0)
    /\ vmResult = FALSE

\* C3: for a caret range ^X.Y.Z with X > 0 and a candidate a.b.c,
\* versionMatches returns true exactly when a = X and (b > Y, or b = Y and
\* c >= Z).
C3_CaretMajorPositive ==
    vmPc = "done" =>
        \A r \in RangeTriples(<<"^">>) : \A t \in TargetTriples :
            r[1] > 0 =>
                (vmResult <=> (t[1] = r[1]
                               /\ (t[2] > r[2] \/ (t[2] = r[2] /\ t[3] >= r[3]))))

C3_Witness ==
    /\ vmPc = "done"
    /\ rangeSpec = <<"^">> \o V(1, 2, 1)
    /\ targetVersion = V(1, 10, 0)
    /\ vmResult = TRUE

\* C4: for a caret range ^0.Y.Z with Y > 0 and a candidate a.b.c,
\* versionMatches returns true exactly when a = 0, b = Y and c >= Z; for
\* ^0.0.Z it returns true exactly when the candidate is 0.0.Z.
C4_CaretMajorZero ==
    vmPc = "done" =>
        \A r \in RangeTriples(<<"^">>) : \A t \in TargetTriples :
            r[1] = 0 =>
                IF r[2] > 0
                THEN vmResult <=> (t[1] = 0 /\ t[2] = r[2] /\ t[3] >= r[3])
                ELSE vmResult <=> (t[1] = 0 /\ t[2] = 0 /\ t[3] = r[3])

C4_Witness ==
    /\ vmPc = "done"
    /\ rangeSpec = <<"^">> \o V(0, 1, 1)
    /\ targetVersion = V(0, 2, 1)
    /\ vmResult = FALSE

\* C5: for a tilde range ~X.Y.Z and a candidate a.b.c, versionMatches returns
\* true exactly when a = X, b = Y and c >= Z.
C5_Tilde ==
    vmPc = "done" =>
        \A r \in RangeTriples(<<"~">>) : \A t \in TargetTriples :
            vmResult <=> (t[1] = r[1] /\ t[2] = r[2] /\ t[3] >= r[3])

C5_Witness ==
    /\ vmPc = "done"
    /\ rangeSpec = <<"~">> \o V(1, 2, 0)
    /\ targetVersion = V(1, 2, 10)
    /\ vmResult = TRUE

(***************************************************************************)
(* Properties of the scanner (checked under Spec)                          *)
(***************************************************************************)
\* the known malicious versions of a package (none when the key is absent)
KnownVersions(pkgName) ==
    IF pkgName \in DOMAIN maliciousVersions THEN maliciousVersions[pkgName] ELSE <<>>

FindingsOfType(type) == {i \in 1..Len(findings) : findings[i].type = type}

\* C1 as stated: a second scan() on the same instance over the unchanged tree
\* returns the findings the first call returned, and the first result is not
\* changed by the second call.
C1_SecondScanIdentical ==
    Len(results) >= 2 =>
        /\ results[2].returned = results[1].returned
        /\ results[1].findings = results[1].returned

\* C6: a manifest finding names a package of the malicious-name set, its
\* matchedMaliciousVersions is the list of known malicious versions its spec
\* is satisfied by, and it is CRITICAL iff that list is non-empty, WARNING iff
\* the list is empty and versions are known, INFO iff no version is known.
C6_ManifestSeverity ==
    \A i \in FindingsOfType("package.json") :
        LET f == findings[i]
            M == KnownVersions(f.package)
            sub == SelectSeq(M, LAMBDA m : versionMatches(f.version, m))
        IN  /\ Includes(maliciousPackages, f.package)
            /\ f.matchedMaliciousVersions = sub
            /\ f.allKnownMaliciousVersions = M
            /\ (f.severity = "CRITICAL") <=> (sub # <<>>)
            /\ (f.severity = "WARNING") <=> (M # <<>> /\ sub = <<>>)
            /\ (f.severity = "INFO") <=> (M = <<>>)

C6_Witness ==
    \E i \in FindingsOfType("package.json") :
        /\ findings[i].package = PkgEvil
        /\ findings[i].version = <<"^">> \o V(2, 0, 0)
        /\ maliciousVersions[PkgEvil] = <<V(1, 2, 3)>>
        /\ findings[i].severity = "WARNING"

\* C7 as stated: a lock-file finding is CRITICAL iff its extracted version is
\* identical to a known malicious version of the package, otherwise WARNING;
\* it is never INFO and never lacks an extracted version.
C7_LockExactIdentity ==
    \A i \in FindingsOfType("lock file") :
        LET f == findings[i]
            M == KnownVersions(f.package)
        IN  /\ (f.severity = "CRITICAL") <=> (\E k \in 1..Len(M) : M[k] = f.version)
            /\ f.severity \in {"CRITICAL", "WARNING"}
            /\ f.version # S_unknown

\* the directories a file lies in, from position `from` of its path on
UnderExcluded(filePath, from) ==
    \E k \in from..(Len(filePath) - 1) : Includes(excludeDirs, filePath[k])

\* C8 as stated: no finding's file lies inside a directory with an excluded
\* name, the scan root included.
C8_NoFindingUnderExcludedName ==
    \A i \in 1..Len(findings) : ~UnderExcluded(findings[i].file, 1)

\* C8 amended: no finding's file lies inside a directory below the scan root
\* whose name is in the exclusion set, at any depth.
C8_NoFindingUnderExcludedSubdir ==
    \A i \in 1..Len(findings) : ~UnderExcluded(findings[i].file, Len(rootPath) + 1)

\* some file of the subtree would yield a finding if it were scanned
RECURSIVE HasMaliciousFile(_, _)
HasMaliciousFile(dir, node) ==
    \E i \in 1..Len(node.entries) :
        LET e == node.entries[i]
        IN  \/ e.kind = "file" /\ FileFindings(Join(dir, e.name), e) # <<>>
            \/ e.kind = "dir" /\ HasMaliciousFile(Join(dir, e.name), e)

\* a directory the walk reaches holds, `depth` or more levels below it, a
\* subdirectory with an excluded name and a malicious file in it
RECURSIVE PrunedMalicious(_, _, _)
PrunedMalicious(dir, node, depth) ==
    \E i \in 1..Len(node.entries) :
        LET e == node.entries[i]
        IN  /\ e.kind = "dir"
            /\ IF IsExcluded(e.name)
               THEN depth <= 1 /\ HasMaliciousFile(Join(dir, e.name), e)
               ELSE PrunedMalicious(Join(dir, e.name), e, depth - 1)

\* a finished scan, with findings, of a tree that holds a malicious manifest
\* inside an excluded directory three levels below the root
C8_Witness ==
    /\ Len(results) >= 1
    /\ results[1].returned # <<>>
    /\ PrunedMalicious(rootPath, fs.root, 3)

\* the item cannot be read or (a .json file) cannot be parsed
IsBad(e) ==
    \/ ~e.readable
    \/ e.kind = "file" /\ EndsWith(NameChars(e.name), C_json) /\ ~e.content.valid

\* the tree without its bad items
RECURSIVE Clean(_)
Clean(node) ==
    LET kept == SelectSeq(node.entries, LAMBDA e : ~IsBad(e))
    IN  [node EXCEPT !.entries =
            [i \in 1..Len(kept) |-> IF kept[i].kind = "dir" THEN Clean(kept[i]) ELSE kept[i]]]

\* the findings of one scan of a readable tree, in traversal order
RECURSIVE TreeFindings(_, _, _)
TreeFindings(dir, node, i) ==
    IF i > Len(node.entries) THEN <<>>
    ELSE LET e == node.entries[i]
             here == IF e.kind = "dir" /\ ~IsExcluded(e.name)
                     THEN TreeFindings(Join(dir, e.name), e, 1)
                     ELSE IF e.kind = "file" /\ Includes(dependencyFiles, e.name)
                          THEN FileFindings(Join(dir, e.name), e)
                          ELSE <<>>
         IN  here \o TreeFindings(dir, node, i + 1)

HasBadItem(node) == Clean(node) # node

\* C9: items that cannot be read or parsed raise no error out of scan() and
\* the findings of a scan are those of the same tree with the bad items
\* removed (stated of the first scan of an instance).
C9_BadItemsSkipped ==
    fs.exists =>
        /\ thrown = 0
        /\ (pc = "idle" /\ Len(results) >= 1) =>
              results[1].returned = TreeFindings(rootPath, Clean(fs.root), 1)

\* a finished scan of a tree with a bad item that names a malicious package
\* and with findings from its sibling files
C9_Witness ==
    /\ Len(results) >= 1
    /\ Len(results[1].returned) >= 2
    /\ HasBadItem(fs.root)
    /\ \E i \in 1..Len(fs.root.entries) :
          LET e == fs.root.entries[i]
          IN  /\ e.kind = "dir" /\ ~IsExcluded(e.name)
              /\ \E j \in 1..Len(e.entries) :
                    /\ e.entries[j].name = "package.json"
                    /\ ~e.entries[j].content.valid
                    /\ e.entries[j].content.dependencies # <<>>

\* C10: when the scan root does not exist scan() throws and returns no
\* result, no directory is visited, no file is scanned and the findings and
\* counters of the scanner stay as they were.
C10_MissingRootThrows ==
    ~fs.exists =>
        /\ pc = "idle" /\ stack = <<>>
        /\ results = <<>>
        /\ visited = <<>> /\ opened = <<>> /\ printed = <<>>
        /\ findings = <<>> /\ currentProjectFindings = <<>>
        /\ scannedDirs = 0 /\ scannedFiles = 0
        /\ currentProjectPath = NoPath

C10_Witness == ~fs.exists /\ thrown >= 1

(***************************************************************************)
(* The constructor's database load, over any data source                   *)
(***************************************************************************)
\* what require(this.config.dataPath) can find: a module that cannot be
\* loaded, or one that exports both, one or none of the two mappings
DataSources ==
    {[loads |-> l, packageNames |-> n, packageVersions |-> v] :
        l \in BOOLEAN, n \in BOOLEAN, v \in BOOLEAN}
    \ {ds \in [loads : {FALSE}, packageNames : BOOLEAN, packageVersions : BOOLEAN] :
          ds.packageNames \/ ds.packageVersions}

\* the try block of the constructor: only require() throwing makes the
\* constructor throw; a missing export is assigned as undefined
ConstructorReturns(ds) == ds.loads

\* this.maliciousPackages / this.maliciousVersions after the assignments
LoadedNames(ds, db) == IF ds.loads /\ ds.packageNames THEN db.names ELSE <<>>
LoadedVersions(ds, db) == IF ds.loads /\ ds.packageVersions THEN db.versions ELSE <<>>

LoadRootEntries == UNION {RootEntries(f) : f \in {GoodManifest, GoodLock}}

\* the state after new MalwareScanner(config) returned or threw
InitLoad ==
    /\ NoVM
    /\ \E cfg \in Configs :
          /\ \/ \E es \in LoadRootEntries : fs = [exists |-> TRUE, root |-> Dir(cfg.root, es)]
             \/ fs = [exists |-> FALSE, root |-> Unreadable(Dir(cfg.root, <<GoodManifest>>))]
          /\ rootPath = <<cfg.root>>
          /\ excludeDirs = cfg.exclude
    /\ streamOutput \in BOOLEAN
    /\ dataSource \in DataSources
    /\ \E db \in Databases :
          /\ maliciousPackages = LoadedNames(dataSource, db)
          /\ maliciousVersions = LoadedVersions(dataSource, db)
    /\ constructed = ConstructorReturns(dataSource)
    /\ NoCLI
    /\ FreshScanner

NextLoad ==
    \/ Next
    \/ ScanResultThrows

SpecLoad == InitLoad /\ [][NextLoad]_vars

\* the source cannot be read or lacks one of the two mappings
BadSource ==
    ~dataSource.loads \/ ~dataSource.packageNames \/ ~dataSource.packageVersions

\* C11 as stated: when the data source cannot be read or does not expose both
\* mappings, construction fails: no scanner exists and no directory is walked.
C11_BadSourceNeverConstructed ==
    BadSource => (~constructed /\ visited = <<>> /\ scannedDirs = 0)

(***************************************************************************)
(* The command line: parseArgs and main                                    *)
(***************************************************************************)
\* number of command-line arguments
MaxArgs == 2

\* the characters of an argument
ArgChars(arg) ==
    CASE arg = "-h" -> <<"-", "h">>
      [] arg = "--help" -> <<"-", "-", "h", "e", "l", "p">>
      [] arg = "-v" -> <<"-", "v">>
      [] arg = "--version" -> <<"-", "-", "v", "e", "r", "s", "i", "o", "n">>
      [] arg = "--verbose" -> <<"-", "-", "v", "e", "r", "b", "o", "s", "e">>
      [] arg = "--json" -> <<"-", "-", "j", "s", "o", "n">>
      [] arg = "--exclude" -> <<"-", "-", "e", "x", "c", "l", "u", "d", "e">>
      [] arg = "--bogus" -> <<"-", "-", "b", "o", "g", "u", "s">>
      [] arg = "app" -> <<"a", "p", "p">>
      [] arg = "dist" -> <<"d", "i", "s", "t">>
      [] arg = " app,dist" -> <<" ", "a", "p", "p", ",", "d", "i", "s", "t">>
      [] OTHER -> <<"n", "o", "w", "h", "e", "r", "e">>

\* the directory names an --exclude value can spell
ExcludableNames == {"app", "dist", "nowhere"}

\* the string with these characters
Named(chars) ==
    IF \E n \in ExcludableNames : ArgChars(n) = chars
    THEN CHOOSE n \in ExcludableNames : ArgChars(n) = chars
    ELSE ""

\* String.prototype.split(',') on the characters of a string
RECURSIVE SplitComma(_, _)
SplitComma(chars, piece) ==
    IF chars = <<>> THEN <<piece>>
    ELSE IF Head(chars) = "," THEN <<piece>> \o SplitComma(Tail(chars), <<>>)
    ELSE SplitComma(Tail(chars), Append(piece, Head(chars)))

\* args[++i].split(',').map(d => d.trim())
ExcludeList(arg) ==
    LET pieces == SplitComma(ArgChars(arg), <<>>)
    IN  [k \in 1..Len(pieces) |-> Named(Trim(pieces[k]))]

\* process.cwd(): the command is run in the project directory
Cwd == <<"proj">>

\* path.resolve(arg) of a relative path of one component
Resolve(arg) == Join(Cwd, arg)

\* the config parseArgs starts from
DefaultConfig ==
    [scanPath |-> Cwd, verbose |-> FALSE, outputFormat |-> "console",
     excludeDirs |-> DefaultExcludeDirs]

\* parseArgs from argument i on: the config returned, or the code of the
\* process.exit it calls
RECURSIVE parseArgsFrom(_, _, _)
parseArgsFrom(a, i, config) ==
    IF i > Len(a) THEN [exit |-> -1, config |-> config]
    ELSE LET arg == a[i]
         IN  IF arg \in {"-h", "--help"} THEN [exit |-> 0, config |-> config]
             ELSE IF arg \in {"-v", "--version"} THEN [exit |-> 0, config |-> config]
             ELSE IF arg = "--verbose"
                  THEN parseArgsFrom(a, i + 1, [config EXCEPT !.verbose = TRUE])
             ELSE IF arg = "--json"
                  THEN parseArgsFrom(a, i + 1, [config EXCEPT !.outputFormat = "json"])
             ELSE IF arg = "--exclude"
                  THEN IF i + 1 <= Len(a)
                       THEN parseArgsFrom(a, i + 2,
                                [config EXCEPT !.excludeDirs = ExcludeList(a[i + 1])])
                       ELSE [exit |-> 3, config |-> config]
             ELSE IF ~StartsWith(ArgChars(arg), "-")
                  THEN parseArgsFrom(a, i + 1, [config EXCEPT !.scanPath = Resolve(arg)])
             ELSE [exit |-> 3, config |-> config]

parseArgs(a) == parseArgsFrom(a, 1, DefaultConfig)

\* the exit code main chooses from results.summary
ExitCodeNoWarning(summary) == IF summary.criticalCount > 0 THEN 2 ELSE 0

ExitCodeOf(summary) ==
    IF summary.criticalCount > 0 THEN 2
    ELSE IF summary.warningCount > 0 THEN 1
    ELSE 0

\* main: const config = parseArgs(args), which may exit the process
ParseArgs ==
    /\ cliPc = "start"
    /\ LET parsed == parseArgs(args)
       IN  IF parsed.exit # -1
           THEN /\ cliPc' = "exited"
                /\ exitCode' = parsed.exit
                /\ UNCHANGED <<rootPath, excludeDirs, outputFormat>>
           ELSE /\ cliPc' = "parsed"
                /\ rootPath' = parsed.config.scanPath
                /\ excludeDirs' = parsed.config.excludeDirs
                /\ outputFormat' = parsed.config.outputFormat
                /\ UNCHANGED exitCode
    /\ UNCHANGED <<vmVars, fs, streamOutput, maliciousPackages, maliciousVersions, dataSource,
                   scannerVars, ctlVars, constructed, args>>

\* main: streamOutput is switched off for json, new MalwareScanner(config);
\* a constructor that throws is caught by main
Construct ==
    /\ cliPc = "parsed"
    /\ streamOutput' = IF outputFormat = "json" THEN FALSE ELSE streamOutput
    /\ IF ConstructorReturns(dataSource)
       THEN constructed' = TRUE /\ cliPc' = "scanning"
       ELSE constructed' = FALSE /\ cliPc' = "caught"
    /\ UNCHANGED <<vmVars, fs, rootPath, excludeDirs, maliciousPackages, maliciousVersions,
                   dataSource, scannerVars, ctlVars, args, exitCode, outputFormat>>

\* main: scan() returned, the report is written, process.exit by severity
MainExit ==
    /\ cliPc = "scanning" /\ pc = "idle" /\ Len(results) = 1
    /\ cliPc' = "exited"
    /\ exitCode' = ExitCodeOf(results[1].summary)
    /\ UNCHANGED <<vmVars, envVars, scannerVars, ctlVars, constructed, args, outputFormat>>

\* main: catch (error), process.exit(3)
MainCatch ==
    /\ cliPc = "caught" \/ (cliPc = "scanning" /\ pc = "idle" /\ thrown > 0)
    /\ cliPc' = "exited"
    /\ exitCode' = 3
    /\ UNCHANGED <<vmVars, envVars, scannerVars, ctlVars, constructed, args, outputFormat>>

\* the arguments of a run
ArgValues == {"-h", "--json", "--exclude", "--bogus", "app", " app,dist", "nowhere"}

ArgLists == UNION {[1..n -> ArgValues] : n \in 0..MaxArgs}

WarnManifest == File("package.json", Dep1(PkgFlagged, S_latest))
CleanManifest == File("package.json", Dep1(PkgOther, V(1, 2, 3)))

\* project directories whose scan ends with each severity
CLIRootEntries ==
    { <<WarnManifest, Dir("app", <<GoodManifest>>), Dir("dist", <<GoodLock>>)>>,
      <<CleanManifest, File("README.md", NoContent), Link("yarn.lock"),
        Unreadable(Dir("lib", <<GoodManifest>>)), Dir("app", <<WarnManifest>>)>>,
      <<Dir("node_modules", <<GoodManifest>>), Dir("app", <<CleanManifest>>)>>,
      <<GoodLock>> }

\* the state in which main is entered
InitCLI ==
    /\ NoVM
    /\ \E es \in CLIRootEntries : fs = [exists |-> TRUE, root |-> Dir("proj", es)]
    /\ rootPath = DefaultConfig.scanPath
    /\ excludeDirs = DefaultConfig.excludeDirs
    /\ outputFormat = DefaultConfig.outputFormat
    /\ streamOutput = TRUE
    /\ dataSource \in DataSources
    /\ \E db \in Databases :
          /\ maliciousPackages = LoadedNames(dataSource, db)
          /\ maliciousVersions = LoadedVersions(dataSource, db)
    /\ constructed = FALSE
    /\ args \in ArgLists
    /\ cliPc = "start"
    /\ exitCode = -1
    /\ FreshScanner

NextCLI ==
    \/ ParseArgs
    \/ Construct
    \/ NextLoad
    \/ MainExit
    \/ MainCatch

SpecCLI == InitCLI /\ [][NextCLI]_vars

(***************************************************************************)
(* Claim about the exit code, checked under SpecCLI                        *)
(***************************************************************************)
\* argument i is the value of an --exclude before it
RECURSIVE IsValueAt(_)
IsValueAt(i) == i > 1 /\ args[i - 1] = "--exclude" /\ ~IsValueAt(i - 1)

\* argument i ends the reading of the command line
StopsAt(i) ==
    /\ ~IsValueAt(i)
    /\ \/ args[i] \in {"-h", "--help", "-v", "--version"}
       \/ args[i] = "--exclude" /\ i = Len(args)
       \/ args[i] \notin {"--verbose", "--json", "--exclude"} /\ ArgChars(args[i])[1] = "-"

FirstStop == {i \in 1..Len(args) : StopsAt(i) /\ \A j \in 1..(i - 1) : ~StopsAt(j)}

HelpAsked == \E i \in FirstStop : args[i] \in {"-h", "--help", "-v", "--version"}

BadArguments == FirstStop # {} /\ ~HelpAsked

RunFails == BadArguments \/ BadSource \/ ~existsSync

Keys(pairs) == {pairs[i][1] : i \in 1..Len(pairs)}

ValueOf(pairs, k) == pairs[CHOOSE i \in 1..Len(pairs) : pairs[i][1] = k][2]

\* the names a manifest declares in any of the four categories
DeclaredNames(json) ==
    Keys(json.dependencies) \cup Keys(json.devDependencies)
    \cup Keys(json.optionalDependencies) \cup Keys(json.peerDependencies)

\* the spec of the highest-precedence category that declares the name
PrecedenceSpec(json, name) ==
    IF name \in Keys(json.peerDependencies) THEN ValueOf(json.peerDependencies, name)
    ELSE IF name \in Keys(json.optionalDependencies)
         THEN ValueOf(json.optionalDependencies, name)
    ELSE IF name \in Keys(json.devDependencies) THEN ValueOf(json.devDependencies, name)
    ELSE ValueOf(json.dependencies, name)

MaliciousNames == {maliciousPackages[i] : i \in 1..Len(maliciousPackages)}

\* the findings of the first scan for one package in one file
FindingsFor(filePath, name) ==
    {i \in 1..Len(results[1].returned) :
        results[1].returned[i].file = filePath /\ results[1].returned[i].package = name}

\* C13 as stated: after the first scan, for every file handed to the manifest
\* parser whose text parses, every declared name that is in the malicious-name
\* set has exactly one finding for that file, and its version is the spec of
\* the highest-precedence category declaring the name (peer over optional over
\* dev over direct).
C13_OneFindingPerMaliciousName ==
    (pc = "idle" /\ Len(results) = 1) =>
        \A k \in 1..Len(dispatched) :
            LET filePath == dispatched[k].file
                json == Lookup(filePath).content
            IN  (dispatched[k].parser = "json" /\ json.valid) =>
                    \A name \in DeclaredNames(json) \cap MaliciousNames :
                        /\ Cardinality(FindingsFor(filePath, name)) = 1
                        /\ \A i \in FindingsFor(filePath, name) :
                              results[1].returned[i].version = PrecedenceSpec(json, name)

(***************************************************************************)
(* Claim about the files that are scanned, checked under Spec              *)
(***************************************************************************)
JsonFileNames == {"package.json", "package-lock.json", "npm-shrinkwrap.json"}

LockFileNames == {"yarn.lock", "pnpm-lock.yaml"}

RecognizedNames == JsonFileNames \cup LockFileNames

\* the recognized files listed by the visited directories that could be read
RecognizedFiles ==
    UNION { {Join(visited[d], Lookup(visited[d]).entries[i].name) :
                i \in {j \in 1..Len(Lookup(visited[d]).entries) :
                          /\ Lookup(visited[d]).entries[j].kind = "file"
                          /\ Lookup(visited[d]).entries[j].name \in RecognizedNames}} :
            d \in {c \in 1..Len(visited) : ReadDirReturns(Lookup(visited[c]))} }

\* after the first scan: the files opened are the recognized files of the
\* visited directories, each once, and they are what filesScanned counts and
\* where findings come from
OnlyRecognizedOnce ==
    /\ {opened[k] : k \in 1..Len(opened)} = RecognizedFiles
    /\ Cardinality(RecognizedFiles) = Len(opened)
    /\ \A k \in 1..Len(opened) :
          Basename(opened[k]) \in RecognizedNames /\ Lookup(opened[k]).kind = "file"
    /\ results[1].summary.filesScanned = Len(opened)
    /\ \A i \in 1..Len(results[1].returned) :
          results[1].returned[i].file \in RecognizedFiles
    /\ Len(dispatched) = Len(opened)
    /\ \A k \in 1..Len(opened) : dispatched[k].file = opened[k]

\* the parser the extension of a recognized name selects
ParserByExtension(name) == IF name \in JsonFileNames THEN "json" ELSE "lock"

\* C14 as stated: after the first scan only the recognized files were opened,
\* counted or gave findings, each once, and every one of them was handed to
\* the parser of its extension.
C14_EveryFileToOneParser ==
    (pc = "idle" /\ Len(results) = 1) =>
        /\ OnlyRecognizedOnce
        /\ \A k \in 1..Len(dispatched) :
              dispatched[k].parser = ParserByExtension(Basename(dispatched[k].file))

\* C14, amended: after the first scan only the recognized files were opened,
\* counted or gave findings, each once; every one of them that could be read
\* was handed to the parser of its extension, and one that could not be read
\* (it is counted all the same) to no parser.
C14_ReadableFileToOneParser ==
    (pc = "idle" /\ Len(results) = 1) =>
        /\ OnlyRecognizedOnce
        /\ \A k \in 1..Len(dispatched) :
              dispatched[k].parser =
                 IF Lookup(dispatched[k].file).readable
                 THEN ParserByExtension(Basename(dispatched[k].file))
                 ELSE "unread"

\* a finished scan that met a package-lock.json (manifest parser) and a
\* yarn.lock (lock-text parser) and left a directory entry alone
C14_Witness ==
    /\ pc = "idle" /\ Len(results) = 1
    /\ \E k \in 1..Len(dispatched) :
          Basename(dispatched[k].file) = "package-lock.json" /\ dispatched[k].parser = "json"
    /\ \E k \in 1..Len(dispatched) :
          Basename(dispatched[k].file) = "yarn.lock" /\ dispatched[k].parser = "lock"
    /\ results[1].summary.filesScanned = Len(dispatched)
    /\ Len(dispatched) < Len(fs.root.entries)

(***************************************************************************)
(* Claim about the streamed per-project reports, checked under Spec        *)
(***************************************************************************)
\* the findings a report shows or counts
Reported(report) == report.critical \o report.warning

\* the places of the streamed reports where a finding stands
ReportSlots(f) ==
    {slot \in UNION {{<<r, i>> : i \in 1..Len(Reported(printed[r]))} : r \in 1..Len(printed)} :
        Reported(printed[slot[1]])[slot[2]] = f}

Occurrences(list, f) == Cardinality({i \in 1..Len(list) : list[i] = f})

\* directory dir is filePath's directory or one above it
Contains(dir, filePath) ==
    Len(dir) < Len(filePath) /\ SubSeq(filePath, 1, Len(dir)) = dir

\* C15 as stated: with streaming output, after the first scan every CRITICAL
\* or WARNING finding of the result stands in exactly one per-project report,
\* and that report is the one of a project directory containing the
\* finding's file.
C15_EveryFindingInItsProjectReport ==
    (streamOutput /\ pc = "idle" /\ Len(results) = 1) =>
        \A i \in 1..Len(results[1].returned) :
            LET f == results[1].returned[i]
            IN  f.severity \in {"CRITICAL", "WARNING"} =>
                   /\ Cardinality(ReportSlots(f)) = Occurrences(results[1].returned, f)
                   /\ \A slot \in ReportSlots(f) :
                         Contains(printed[slot[1]].project, f.file)
====
